---- MODULE Spec2Model ----
(* Model of the colorspaces crate: the ColorSpace value types with their     *)
(* derived structural equality (src/colorspace/mod.rs), the SRGB preset      *)
(* (src/preset.rs) and the Image accessors width/height (src/image.rs).      *)
EXTENDS Integers, Sequences, FiniteSets, TLC

VARIABLES a, b, eq, pixels, pc, call, ret

vars == <<a, b, eq, pixels, pc, call, ret>>

(* ------------------------------------------------------------------------ *)
(* Bounds                                                                    *)
(* ------------------------------------------------------------------------ *)

\* how many variants of each parameter enum (in declaration order) are drawn
MaxVariants == 2
\* largest outer vector (rows) of an image
MaxRows == 2
\* largest inner vector (columns of one row) of an image
MaxCols == 2
\* number of concurrent callers
NumThreads == 2

(* ------------------------------------------------------------------------ *)
(* Parameter enums, in declaration order                                     *)
(* ------------------------------------------------------------------------ *)

Luminance == <<"Sdr", "Hdr", "AdobeRgb", "DciP3">>

Primaries == <<"Xyz", "Bt601_525", "Bt601_625", "Bt709", "Smpte240", "Bt2020", "Bt2100">>

Differencing ==
    <<"Bt407MPal", "Bt407MPalPrecise", "Bt601", "Bt601Quantized", "Bt601FullSwing",
      "Bt709", "Bt709Quantized", "Bt709FullSwing", "YDbDr", "Bt2020", "Bt2100", "YCoCg">>

Whitepoint == <<"A", "B", "C", "D50", "D55", "D65", "D75", "E", "F2", "F7", "F11">>

Transfer ==
    <<"Bt709", "Bt470M", "Bt601", "Smpte240", "Linear", "Srgb", "Bt2020_10bit",
      "Bt2020_12bit", "Smpte2084", "Bt2100Pq", "Bt2100Hlg", "Bt2100Scene">>

\* the transfers whose documentation carries "not yet supported, panics on use"
NotYetSupported == {"Bt2020_12bit", "Bt2100Pq", "Bt2100Hlg", "Bt2100Scene"}

ColorSpaceVariants ==
    <<"Xyz", "Uvw", "Luv", "Lab", "Hsluv", "Oklab", "Rgb", "Yuv", "Cmyk", "Cmy",
      "Ycbcr", "Ypbpr", "Ydbdr", "Yiq", "Xvycc", "Sycc", "Hsv", "Hsl">>

\* the variants whose payload is a struct without fields
UnitVariants == {ColorSpaceVariants[i] : i \in 1..Len(ColorSpaceVariants)} \ {"Rgb", "Yuv"}

\* all declared variants of an enum
Variants(enum) == {enum[i] : i \in 1..Len(enum)}

\* the variants of an enum that the model draws inputs from
Sample(enum) == {enum[i] : i \in 1..(IF MaxVariants < Len(enum) THEN MaxVariants ELSE Len(enum))}

\* the discriminant of a fieldless enum variant (declaration position, from 0)
Discriminant(enum, v) == (CHOOSE i \in 1..Len(enum) : enum[i] = v) - 1

\* #[derive(PartialEq)] on a fieldless enum compares discriminants
Enum_eq(enum, x, y) == Discriminant(enum, x) = Discriminant(enum, y)

(* ------------------------------------------------------------------------ *)
(* Colour space structs and the ColorSpace enum                              *)
(* ------------------------------------------------------------------------ *)

\* a struct declared with no fields, e.g. XyzColorSpace {}
UnitStruct == <<>>

RgbColorSpace(p, t, w, l) ==
    [primaries |-> p, transfer |-> t, whitepoint |-> w, luminance |-> l]

YuvColorSpace_nodiff(p, w, t, l, d) ==
    [primary |-> p, whitepoint |-> w, transfer |-> t, luminance |-> l]

YuvColorSpace(p, w, t, l, d) ==
    [primary |-> p, whitepoint |-> w, transfer |-> t, luminance |-> l, differencing |-> d]

\* a ColorSpace value: the variant tag and the struct the variant wraps
ColorSpace(tag, space) == [tag |-> tag, space |-> space]

\* #[derive(PartialEq)] on a struct without fields
UnitStruct_eq(x, y) == TRUE

RgbColorSpace_eq_nolum(x, y) ==
    /\ Enum_eq(Primaries, x.primaries, y.primaries)
    /\ Enum_eq(Transfer, x.transfer, y.transfer)
    /\ Enum_eq(Whitepoint, x.whitepoint, y.whitepoint)

\* #[derive(PartialEq)] on RgbColorSpace: field by field, in declaration order
RgbColorSpace_eq(x, y) ==
    /\ Enum_eq(Primaries, x.primaries, y.primaries)
    /\ Enum_eq(Transfer, x.transfer, y.transfer)
    /\ Enum_eq(Whitepoint, x.whitepoint, y.whitepoint)
    /\ Enum_eq(Luminance, x.luminance, y.luminance)

\* #[derive(PartialEq)] on YuvColorSpace: field by field, in declaration order
YuvColorSpace_eq(x, y) ==
    /\ Enum_eq(Primaries, x.primary, y.primary)
    /\ Enum_eq(Whitepoint, x.whitepoint, y.whitepoint)
    /\ Enum_eq(Transfer, x.transfer, y.transfer)
    /\ Enum_eq(Luminance, x.luminance, y.luminance)
    /\ Enum_eq(Differencing, x.differencing, y.differencing)

\* #[derive(PartialEq)] on ColorSpace: same discriminant, then the payloads
ColorSpace_eq(x, y) ==
    /\ Discriminant(ColorSpaceVariants, x.tag) = Discriminant(ColorSpaceVariants, y.tag)
    /\ CASE x.tag = "Rgb" -> RgbColorSpace_eq(x.space, y.space)
         [] x.tag = "Yuv" -> YuvColorSpace_eq(x.space, y.space)
         [] OTHER -> UnitStruct_eq(x.space, y.space)

(* ------------------------------------------------------------------------ *)
(* Preset                                                                    *)
(* ------------------------------------------------------------------------ *)

SRGB_linear == RgbColorSpace("Bt709", "Linear", "D65", "Sdr")

SRGB == RgbColorSpace("Bt709", "Srgb", "D65", "Sdr")

(* ------------------------------------------------------------------------ *)
(* Image                                                                     *)
(* ------------------------------------------------------------------------ *)

\* the sample type P; the accessors never look at a sample
PixelVals == {"p"}

\* Vec<P>: one row
Rows == UNION {[1..n -> PixelVals] : n \in 0..MaxCols}

\* Pixels<P> = Vec<Vec<P>>; rows need not have equal lengths
Pixels == UNION {[1..m -> Rows] : m \in 0..MaxRows}

\* Vec::len and Vec::is_empty
len(v) == Len(v)

is_empty(v) == Len(v) = 0

\* results of a call
NoRet == [kind |-> "none"]

Usize(n) == [kind |-> "usize", val |-> n]

Panic == [kind |-> "panic"]

Preset(cs) == [kind |-> "RgbColorSpace", val |-> cs]

\* Image::width, run to completion
width(self) == Usize(len(self))

\* Image::height, run to completion
height(self) == IF is_empty(self) THEN Usize(0) ELSE Usize(len(self[1]))

Threads == 1..NumThreads

Ops == {"width", "height", "SRGB"}

(* ------------------------------------------------------------------------ *)
(* Colour space values: construction and comparison                          *)
(* ------------------------------------------------------------------------ *)

\* a binding that holds no value yet
Unbound == [tag |-> "unbound", space |-> <<>>]

\* let <slot> = v; each binding is made once
Bind(slot, v) ==
    IF slot = "a"
    THEN a = Unbound /\ a' = v /\ b' = b
    ELSE b = Unbound /\ b' = v /\ a' = a

\* ColorSpace::Rgb(RgbColorSpace { .. })
ConstructRgb(slot) ==
    \E p \in Sample(Primaries), t \in Sample(Transfer),
       w \in Sample(Whitepoint), l \in Sample(Luminance) :
        LET v == ColorSpace("Rgb", RgbColorSpace(p, t, w, l)) IN
        /\ Bind(slot, v)
        /\ UNCHANGED <<eq, pixels, pc, call, ret>>

\* ColorSpace::Yuv(YuvColorSpace { .. })
ConstructYuv(slot) ==
    \E p \in Sample(Primaries), w \in Sample(Whitepoint), t \in Sample(Transfer),
       l \in Sample(Luminance), d \in Sample(Differencing) :
        LET v == ColorSpace("Yuv", YuvColorSpace(p, w, t, l, d)) IN
        /\ Bind(slot, v)
        /\ UNCHANGED <<eq, pixels, pc, call, ret>>

\* ColorSpace::Xyz(XyzColorSpace {}) and the other variants without parameters
ConstructUnit(slot) ==
    \E tag \in UnitVariants :
        LET v == ColorSpace(tag, UnitStruct) IN
        /\ Bind(slot, v)
        /\ UNCHANGED <<eq, pixels, pc, call, ret>>

\* a == b
Compare ==
    /\ a # Unbound /\ b # Unbound
    /\ eq = <<>>
    /\ eq' = <<ColorSpace_eq(a, b)>>
    /\ UNCHANGED <<a, b, pixels, pc, call, ret>>

InitCs ==
    /\ a = Unbound
    /\ b = Unbound
    /\ eq = <<>>
    /\ pixels = <<>>
    /\ pc = [t \in Threads |-> "idle"]
    /\ call = [t \in Threads |-> "none"]
    /\ ret = [t \in Threads |-> NoRet]

NextCs ==
    \/ \E slot \in {"a", "b"} : ConstructRgb(slot)
    \/ \E slot \in {"a", "b"} : ConstructYuv(slot)
    \/ \E slot \in {"a", "b"} : ConstructUnit(slot)
    \/ Compare

SpecCs == InitCs /\ [][NextCs]_vars

(* ------------------------------------------------------------------------ *)
(* Concurrent callers of the read-only operations on one shared image        *)
(* ------------------------------------------------------------------------ *)

\* a caller starts one of the operations
Call(t) ==
    \E op \in Ops :
        /\ pc[t] = "idle"
        /\ pc' = [pc EXCEPT ![t] = op]
        /\ call' = [call EXCEPT ![t] = op]
        /\ ret' = [ret EXCEPT ![t] = NoRet]
        /\ UNCHANGED <<a, b, eq, pixels>>

WidthBody_pop(t) ==
    /\ pc[t] = "width"
    /\ ret' = [ret EXCEPT ![t] = Usize(len(pixels))]
    /\ pixels' = IF is_empty(pixels) THEN pixels ELSE SubSeq(pixels, 1, Len(pixels) - 1)
    /\ pc' = [pc EXCEPT ![t] = "done"]
    /\ UNCHANGED <<a, b, eq, call>>

\* Image::width(&self): self.pixels.len()
WidthBody(t) ==
    /\ pc[t] = "width"
    /\ ret' = [ret EXCEPT ![t] = Usize(len(pixels))]
    /\ pc' = [pc EXCEPT ![t] = "done"]
    /\ UNCHANGED <<a, b, eq, pixels, call>>

HeightBranch_noguard(t) ==
    /\ pc[t] = "height"
    /\ pc' = [pc EXCEPT ![t] = "height_index"]
    /\ UNCHANGED <<a, b, eq, pixels, call, ret>>

\* Image::height(&self): if self.pixels.is_empty() { 0 } else ..
HeightBranch(t) ==
    /\ pc[t] = "height"
    /\ IF is_empty(pixels)
       THEN /\ ret' = [ret EXCEPT ![t] = Usize(0)]
            /\ pc' = [pc EXCEPT ![t] = "done"]
       ELSE /\ ret' = ret
            /\ pc' = [pc EXCEPT ![t] = "height_index"]
    /\ UNCHANGED <<a, b, eq, pixels, call>>

\* Image::height(&self): .. else { self.pixels[0].len() }; indexing past the
\* end of a Vec panics
HeightIndex(t) ==
    /\ pc[t] = "height_index"
    /\ ret' = [ret EXCEPT ![t] =
                 IF 0 < len(pixels) THEN Usize(len(pixels[1])) ELSE Panic]
    /\ pc' = [pc EXCEPT ![t] = "done"]
    /\ UNCHANGED <<a, b, eq, pixels, call>>

\* a use of the constant SRGB
ReadSRGB(t) ==
    /\ pc[t] = "SRGB"
    /\ ret' = [ret EXCEPT ![t] = Preset(SRGB)]
    /\ pc' = [pc EXCEPT ![t] = "done"]
    /\ UNCHANGED <<a, b, eq, pixels, call>>

\* the caller takes the result and may call again
Return(t) ==
    /\ pc[t] = "done"
    /\ pc' = [pc EXCEPT ![t] = "idle"]
    /\ call' = [call EXCEPT ![t] = "none"]
    /\ ret' = [ret EXCEPT ![t] = NoRet]
    /\ UNCHANGED <<a, b, eq, pixels>>

InitImg ==
    /\ a = Unbound
    /\ b = Unbound
    /\ eq = <<>>
    /\ pixels \in Pixels
    /\ pc = [t \in Threads |-> "idle"]
    /\ call = [t \in Threads |-> "none"]
    /\ ret = [t \in Threads |-> NoRet]

NextImg ==
    \/ \E t \in Threads : Call(t)
    \/ \E t \in Threads : WidthBody(t)
    \/ \E t \in Threads : HeightBranch(t)
    \/ \E t \in Threads : HeightIndex(t)
    \/ \E t \in Threads : ReadSRGB(t)
    \/ \E t \in Threads : Return(t)

SpecImg == InitImg /\ [][NextImg]_vars

(* ------------------------------------------------------------------------ *)
(* Properties                                                                *)
(* ------------------------------------------------------------------------ *)

Bound(cs) == cs # Unbound

\* the two values have the same variant and the same embedded parameters
SameTagAndParams(x, y) ==
    /\ x.tag = y.tag
    /\ DOMAIN x.space = DOMAIN y.space
    /\ \A f \in DOMAIN x.space : x.space[f] = y.space[f]

\* C3: two ColorSpace values compare equal exactly when they have the same
\* variant tag and every embedded parameter is equal; values of different
\* variants or differing in one parameter are unequal, and two values of the
\* same parameterless variant are equal.
C3_StructuralEquality ==
    eq # <<>> =>
        /\ eq[1] <=> SameTagAndParams(a, b)
        /\ a.tag # b.tag => ~eq[1]
        /\ (a.tag = b.tag /\ a.tag \in UnitVariants) => eq[1]

\* two Rgb values that differ in their luminance only have been compared
C3_Witness ==
    /\ eq = <<FALSE>>
    /\ a.tag = "Rgb" /\ b.tag = "Rgb"
    /\ a.space.luminance # b.space.luminance
    /\ \A f \in {"primaries", "transfer", "whitepoint"} : a.space[f] = b.space[f]

\* the parameters a value of each variant is prescribed to carry
CarriesPrescribed(cs) ==
    /\ cs.tag \in Variants(ColorSpaceVariants)
    /\ cs.tag = "Rgb" =>
        /\ DOMAIN cs.space = {"primaries", "transfer", "whitepoint", "luminance"}
        /\ cs.space.primaries \in Variants(Primaries)
        /\ cs.space.transfer \in Variants(Transfer)
        /\ cs.space.whitepoint \in Variants(Whitepoint)
        /\ cs.space.luminance \in Variants(Luminance)
    /\ cs.tag = "Yuv" =>
        /\ DOMAIN cs.space = {"primary", "whitepoint", "transfer", "luminance", "differencing"}
        /\ cs.space.primary \in Variants(Primaries)
        /\ cs.space.whitepoint \in Variants(Whitepoint)
        /\ cs.space.transfer \in Variants(Transfer)
        /\ cs.space.luminance \in Variants(Luminance)
        /\ cs.space.differencing \in Variants(Differencing)
    /\ cs.tag \in UnitVariants => DOMAIN cs.space = {}
    /\ cs.tag = "SrLab2" => DOMAIN cs.space = {"whitepoint"}

\* C4: every constructed ColorSpace value carries exactly the parameters of
\* its variant: Rgb carries primaries, transfer, whitepoint and luminance; Yuv
\* carries primaries, whitepoint, transfer, luminance and differencing; the
\* parameterless variants carry nothing (and an SrLab2 value, were there one,
\* only a whitepoint).
C4_VariantParameters ==
    /\ Bound(a) => CarriesPrescribed(a)
    /\ Bound(b) => CarriesPrescribed(b)

\* a Yuv value and an Rgb value have been constructed and compared
C4_Witness ==
    /\ a.tag = "Yuv" /\ b.tag = "Rgb"
    /\ eq # <<>>

\* C7: no operation writes shared state: under every interleaving of width,
\* height and SRGB reads the image is never changed, every finished call has
\* the result the operation gives when run alone on the image, and the SRGB
\* constant read is the declared one.
C7_NoSharedWrites ==
    [][/\ pixels' = pixels
       /\ \A t \in Threads :
            pc'[t] = "done" =>
                ret'[t] = CASE call'[t] = "width" -> width(pixels)
                            [] call'[t] = "height" -> height(pixels)
                            [] OTHER -> Preset(SRGB)]_vars

\* one caller has finished width while another is in the middle of height
C7_Witness ==
    \E t, u \in Threads :
        /\ t # u
        /\ pc[t] = "done" /\ call[t] = "width"
        /\ pc[u] = "height_index"

\* every row has the same length and there is at least one row
Rectangular(px) == Len(px) > 0 /\ \A i \in 1..Len(px) : Len(px[i]) = Len(px[1])

\* C8: for pixels in row-column format, width() is the number of columns (the
\* length of a row) and height() is the number of rows (the length of the
\* outer vector).
C8_WidthColumnsHeightRows ==
    \A t \in Threads :
        (pc[t] = "done" /\ Rectangular(pixels)) =>
            /\ call[t] = "width" => ret[t] = Usize(Len(pixels[1]))
            /\ call[t] = "height" => ret[t] = Usize(Len(pixels))

\* the image holds no sample at all
NoPixels(px) == \A i \in 1..Len(px) : Len(px[i]) = 0

C10_SrgbPreset ==
    \A t \in Threads :
        (pc[t] = "done" /\ call[t] = "SRGB") =>
            /\ ret[t].kind = "RgbColorSpace"
            /\ DOMAIN ret[t].val = {"primaries", "transfer", "whitepoint", "luminance"}
            /\ ret[t].val.primaries = "Bt709"
            /\ ret[t].val.transfer = "Srgb"
            /\ ret[t].val.whitepoint = "D65"
            /\ ret[t].val.luminance = "Sdr"
            /\ ret[t].val.transfer \notin NotYetSupported \cup {"Smpte2084"}

\* a caller has read the preset
C10_Witness == \E t \in Threads : pc[t] = "done" /\ call[t] = "SRGB"

====
